---- MODULE Spec2Model ----
(***************************************************************************)
(* Model of well_position_plate_generator.py: the filename parser, the     *)
(* grouping step, the well assignment loop, the dataset-to-plate           *)
(* conversion and the multi-dataset batch driver, together with the state  *)
(* of the remote OMERO server that the script reads and writes.            *)
(*                                                                         *)
(* A filename is a sequence of one-character strings.  A remote call that  *)
(* can fail is a pair of actions, one per outcome.  An exception nobody    *)
(* catches ends the run in pc = "crashed".                                 *)
(***************************************************************************)
EXTENDS Integers, Sequences, FiniteSets

VARIABLES
    ids,          \* script_params['IDs']
    removeParam,  \* script_params['Remove_From_Dataset']
    screenParam,  \* script_params['Screen']: "" | "id" | "name"
    content,      \* server: dataset id -> images the dataset held at the start
    links,        \* server: DatasetImageLinks, <<dataset id, image id>>
    srvPlates,    \* server: saved plates, in save order (plate id = index), by name
    srvWells,     \* server: saved wells, in save order
    srvFailed,    \* server: wells whose saveObject was rejected
    srvScreenLinks, \* server: saved ScreenPlateLinks, <<screen id, plate id>>
    srvScreens,   \* server: ids of the screens that exist
    screen,       \* datasets_to_plates: the resolved screen, 0 for None
    pc,           \* position of the script
    i,            \* datasets_to_plates: index of dataset_id in dataset_ids
    plates,       \* datasets_to_plates: the list plates
    log,          \* datasets_to_plates: what was printed per dataset
    plate,        \* dataset_to_plate: id of the plate just created
    images,       \* dataset_to_plate: list(dataset.listChildren())
    grouped,      \* add_images_to_plate: grouped_images, in insertion order
    g,            \* add_images_to_plate: index of the group being assigned
    r,            \* add_images_to_plate: index of the image being unlinked
    ret,          \* add_images_to_plate: "none" | "True" | "False"
    error,        \* the uncaught exception, "none" when there is none
    result,       \* datasets_to_plates: the returned (object, message)
    fname,        \* the filename handed to the parser
    parsed        \* what the parser returned for fname

vars == <<ids, removeParam, screenParam, content, links, srvPlates, srvWells,
          srvFailed, srvScreenLinks, srvScreens, screen, pc, i, plates, log,
          plate, images, grouped, g, r, ret, error, result, fname, parsed>>

srvVars == <<content, links, srvPlates, srvWells, srvFailed, srvScreenLinks,
             srvScreens>>
paramVars == <<ids, removeParam, screenParam>>
parseVars == <<fname, parsed>>

(***************************************************************************)
(* Bounds.                                                                 *)
(***************************************************************************)
MaxImages == 4
MaxBatchImages == 1
MaxIds == 2
MaxNameLen == 4

(***************************************************************************)
(* Characters.                                                             *)
(***************************************************************************)
UpperLetters == {"A", "B", "X"}
LowerLetters == {"a", "b", "x"}
Letters == UpperLetters \cup LowerLetters
Digits == {"0", "1", "2", "3"}

\* str.upper() on one character
UpperChar(c) ==
    CASE c = "a" -> "A"
      [] c = "b" -> "B"
      [] c = "x" -> "X"
      [] OTHER -> c

\* str.upper()
Upper(s) == [k \in 1..Len(s) |-> UpperChar(s[k])]

\* ord() of one character
OrdChar(c) ==
    CASE c = "A" -> 65
      [] c = "B" -> 66
      [] c = "X" -> 88
      [] c = "a" -> 97
      [] c = "b" -> 98
      [] c = "x" -> 120
      [] c = "0" -> 48
      [] c = "1" -> 49
      [] c = "2" -> 50
      [] c = "3" -> 51
      [] OTHER -> 95

DigitValue(c) == OrdChar(c) - 48

\* int() of a digit string
RECURSIVE IntOf(_)
IntOf(s) ==
    IF s = <<>> THEN 0
    ELSE 10 * IntOf(SubSeq(s, 1, Len(s) - 1)) + DigitValue(s[Len(s)])

\* the last index of the run of characters of class cls that starts at k
RECURSIVE RunEnd(_, _, _)
RunEnd(s, k, cls) ==
    IF k < Len(s) /\ s[k + 1] \in cls THEN RunEnd(s, k + 1, cls) ELSE k

NoMatch == [found |-> FALSE]

\* the pattern ([A-Za-z]+)(\d+) tried at position k: the letters are taken
\* greedily, and giving letters back never puts a digit next
MatchAt(s, k) ==
    IF s[k] \notin Letters THEN NoMatch
    ELSE LET e == RunEnd(s, k, Letters)
         IN  IF e < Len(s) /\ s[e + 1] \in Digits
             THEN [found |-> TRUE,
                   row |-> SubSeq(s, k, e),
                   col |-> SubSeq(s, e + 1, RunEnd(s, e + 1, Digits))]
             ELSE NoMatch

\* re.match: the pattern tried at the start of the string only
ReMatchOnly(s) == IF Len(s) = 0 THEN NoMatch ELSE MatchAt(s, 1)

\* re.search: the match at the leftmost position that has one
RECURSIVE SearchFrom(_, _)
SearchFrom(s, k) ==
    IF k > Len(s) THEN NoMatch
    ELSE IF MatchAt(s, k).found THEN MatchAt(s, k)
    ELSE SearchFrom(s, k + 1)

ReSearch(s) == SearchFrom(s, 1)

\* parse_well_position_from_filename; (None, None) is [found |-> FALSE]
parse_well_position_from_filename(filename) ==
    LET match == ReSearch(filename)
    IN  IF match.found
        THEN [found |-> TRUE, row |-> Upper(match.row), col |-> IntOf(match.col)]
        ELSE NoMatch

(***************************************************************************)
(* Grouping.  A dict keeps its keys in insertion order: grouped_images is  *)
(* a sequence of [key, imgs], one entry per key, ordered by first insert.  *)
(***************************************************************************)
\* a list of pairs in place of the dict: every image opens an entry of its own
GroupAppendNoLookup(gr, image) ==
    LET p == parse_well_position_from_filename(image.name)
    IN  IF ~p.found THEN gr
        ELSE Append(gr, [key |-> <<p.row, p.col>>, imgs |-> <<image>>])

\* insert(0, image) in place of append(image)
GroupPrepend(gr, image) ==
    LET p == parse_well_position_from_filename(image.name)
        key == <<p.row, p.col>>
        at == {k \in 1..Len(gr) : gr[k].key = key}
    IN  IF ~p.found THEN gr
        ELSE IF at = {} THEN Append(gr, [key |-> key, imgs |-> <<image>>])
        ELSE [gr EXCEPT ![CHOOSE k \in at : TRUE].imgs = <<image>> \o @]

\* the body of the loop: grouped_images[well_position].append(image)
GroupAppend(gr, image) ==
    LET p == parse_well_position_from_filename(image.name)
        key == <<p.row, p.col>>
        at == {k \in 1..Len(gr) : gr[k].key = key}
    IN  IF ~p.found THEN gr
        ELSE IF at = {} THEN Append(gr, [key |-> key, imgs |-> <<image>>])
        ELSE [gr EXCEPT ![CHOOSE k \in at : TRUE].imgs = Append(@, image)]

RECURSIVE GroupFrom(_, _, _)
GroupFrom(imgs, k, gr) ==
    IF k > Len(imgs) THEN gr
    ELSE GroupFrom(imgs, k + 1, GroupAppend(gr, imgs[k]))

group_images_by_well_position(imgs) == GroupFrom(imgs, 1, <<>>)

(***************************************************************************)
(* Well construction.                                                      *)
(***************************************************************************)
\* the slice widened by one: grouped_images[:3]
FirstThree(imgs) == SubSeq(imgs, 1, IF Len(imgs) < 3 THEN Len(imgs) ELSE 3)

\* grouped_images[:2]
FirstTwo(imgs) == SubSeq(imgs, 1, IF Len(imgs) < 2 THEN Len(imgs) ELSE 2)

\* ord(row_str) raises TypeError unless row_str is one character
OrdDefined(row_str) == Len(row_str) = 1

\* ord(row_str) - ord('A')
RowIndex(row_str) == OrdChar(row_str[1]) - OrdChar("A")

\* the WellI built for one group, with its WellSampleIs
MakeWell(plate_id, key, imgs) ==
    [plate |-> plate_id,
     row |-> RowIndex(key[1]),
     column |-> key[2] - 1,
     samples |-> [k \in 1..Len(FirstTwo(imgs)) |-> FirstTwo(imgs)[k].id]]

(***************************************************************************)
(* The server's content and the script's inputs.                           *)
(***************************************************************************)
DatasetIds == {1, 2}
AllIds == {1, 2, 3}
ExistingScreen == {1}

\* the image names of the model
NameSet ==
    { <<"b", "3", "_", "x">>,
      <<"B", "0", "3">>,
      <<"A", "1">>,
      <<"A", "0">>,
      <<"A", "B", "1">>,
      <<"x", "_">> }

SeqsUpTo(S, n) == UNION {[1..k -> S] : k \in 0..n}

MkImages(d, names) ==
    [k \in 1..Len(names) |-> [id |-> 10 * d + k, name |-> names[k]]]

FixedNames == << <<"A", "1">>, <<"B", "0", "3">> >>

\* the DatasetImageLinks of datasets holding the images c
LinksOf(c) ==
    UNION {{<<d, c[d][k].id>> : k \in 1..Len(c[d])} : d \in DatasetIds}

Idle ==
    /\ screen = 0 /\ i = 1 /\ plates = <<>> /\ log = <<>> /\ plate = 0
    /\ images = <<>> /\ grouped = <<>> /\ g = 1 /\ r = 1 /\ ret = "none"
    /\ error = "none" /\ result = [obj |-> 0, n |-> 0]
    /\ srvPlates = <<>> /\ srvWells = <<>> /\ srvFailed = <<>>
    /\ srvScreenLinks = {} /\ srvScreens = ExistingScreen

\* the batch: several dataset ids, small datasets
Init ==
    /\ ids \in SeqsUpTo(AllIds, MaxIds)
    /\ removeParam \in BOOLEAN
    /\ screenParam \in {"", "id", "name"}
    /\ \E names \in SeqsUpTo(NameSet, MaxBatchImages) :
           content = [d \in DatasetIds |->
                         IF d = 1 THEN MkImages(1, names) ELSE MkImages(2, FixedNames)]
    /\ links = LinksOf(content)
    /\ pc = "start"
    /\ fname = <<>> /\ parsed = NoMatch
    /\ Idle

\* one call of dataset_to_plate: a dataset that exists and holds any images,
\* the screen already resolved
InitWells ==
    /\ ids = <<1>>
    /\ removeParam \in BOOLEAN
    /\ screenParam \in {"", "id"}
    /\ \E names \in SeqsUpTo(NameSet, MaxImages) :
           content = [d \in DatasetIds |->
                         IF d = 1 THEN MkImages(1, names) ELSE <<>>]
    /\ links = LinksOf(content)
    /\ pc = "loop"
    /\ fname = <<>> /\ parsed = NoMatch
    /\ i = 1 /\ plates = <<>> /\ log = <<>> /\ plate = 0
    /\ images = <<>> /\ grouped = <<>> /\ g = 1 /\ r = 1 /\ ret = "none"
    /\ error = "none" /\ result = [obj |-> 0, n |-> 0]
    /\ srvPlates = <<>> /\ srvWells = <<>> /\ srvFailed = <<>>
    /\ srvScreenLinks = {} /\ srvScreens = ExistingScreen
    /\ screen = IF screenParam = "id" THEN 1 ELSE 0

\* the grouping step alone, on any list of images
InitGroup ==
    /\ \E names \in SeqsUpTo(NameSet, MaxImages) : images = MkImages(1, names)
    /\ grouped = <<>>
    /\ pc = "group"
    /\ ids = <<>> /\ removeParam = FALSE /\ screenParam = ""
    /\ content = [d \in DatasetIds |-> <<>>] /\ links = {}
    /\ fname = <<>> /\ parsed = NoMatch
    /\ screen = 0 /\ i = 1 /\ plates = <<>> /\ log = <<>> /\ plate = 0
    /\ g = 1 /\ r = 1 /\ ret = "none"
    /\ error = "none" /\ result = [obj |-> 0, n |-> 0]
    /\ srvPlates = <<>> /\ srvWells = <<>> /\ srvFailed = <<>>
    /\ srvScreenLinks = {} /\ srvScreens = ExistingScreen

ParseAlphabet == {"A", "b", "0", "2", "_"}

\* the parser alone, on any filename
InitParse ==
    /\ fname \in SeqsUpTo(ParseAlphabet, MaxNameLen)
    /\ parsed = NoMatch
    /\ pc = "parse"
    /\ ids = <<>> /\ removeParam = FALSE /\ screenParam = ""
    /\ content = [d \in DatasetIds |-> <<>>] /\ links = {}
    /\ Idle

(***************************************************************************)
(* datasets_to_plates: the screen.                                         *)
(***************************************************************************)
scriptVars == <<plates, log, plate, images, grouped, g, r, ret, result>>

\* no 'Screen' parameter, or an empty one
ScreenNone ==
    /\ pc = "start" /\ screenParam = ""
    /\ screen' = 0 /\ pc' = "loop"
    /\ UNCHANGED <<paramVars, srvVars, scriptVars, i, error, parseVars>>

\* int(screen_name_or_id) succeeds: conn.getObject("Screen", screen_id)
ScreenById ==
    /\ pc = "start" /\ screenParam = "id"
    /\ screen' = CHOOSE s \in ExistingScreen : TRUE
    /\ pc' = "loop"
    /\ UNCHANGED <<paramVars, srvVars, scriptVars, i, error, parseVars>>

\* ValueError: a new screen of that name is saved
ScreenCreate ==
    /\ pc = "start" /\ screenParam = "name"
    /\ srvScreens' = srvScreens \cup {2}
    /\ screen' = 2 /\ pc' = "loop"
    /\ UNCHANGED <<paramVars, content, links, srvPlates, srvWells, srvFailed,
                   srvScreenLinks, scriptVars, i, error, parseVars>>

\* saveAndReturnObject(new_screen) raises: nothing catches it
ScreenCreateFails ==
    /\ pc = "start" /\ screenParam = "name"
    /\ error' = "RemoteError" /\ pc' = "crashed"
    /\ UNCHANGED <<paramVars, srvVars, scriptVars, screen, i, parseVars>>

(***************************************************************************)
(* dataset_to_plate.                                                       *)
(***************************************************************************)
\* the report an aborted batch would leave: the loop is left at once
AbortOnNotFound ==
    /\ pc = "loop" /\ i <= Len(ids) /\ ids[i] \notin DatasetIds
    /\ log' = Append(log, [id |-> ids[i], ok |-> FALSE,
                           message |-> "Dataset not found", plate |-> 0])
    /\ i' = Len(ids) + 1
    /\ UNCHANGED <<paramVars, srvVars, screen, pc, plates, plate, images,
                   grouped, g, r, ret, error, result, parseVars>>

\* conn.getObject returns None: (None, "Dataset not found", None), and the
\* driver prints "Failed to process dataset"
DatasetNotFound ==
    /\ pc = "loop" /\ i <= Len(ids) /\ ids[i] \notin DatasetIds
    /\ log' = Append(log, [id |-> ids[i], ok |-> FALSE,
                           message |-> "Dataset not found", plate |-> 0])
    /\ i' = i + 1
    /\ UNCHANGED <<paramVars, srvVars, screen, pc, plates, plate, images,
                   grouped, g, r, ret, error, result, parseVars>>

DatasetFound ==
    /\ pc = "loop" /\ i <= Len(ids) /\ ids[i] \in DatasetIds
    /\ pc' = "save_plate"
    /\ UNCHANGED <<paramVars, srvVars, scriptVars, screen, i, error, parseVars>>

\* update_service.saveAndReturnObject(plate), named after the dataset
SavePlate ==
    /\ pc = "save_plate"
    /\ srvPlates' = Append(srvPlates, ids[i])
    /\ plate' = Len(srvPlates) + 1
    /\ pc' = "link_plate"
    /\ UNCHANGED <<paramVars, content, links, srvWells, srvFailed, srvScreenLinks,
                   srvScreens, screen, i, plates, log, images, grouped, g, r,
                   ret, error, result, parseVars>>

\* it raises: nothing catches it
SavePlateFails ==
    /\ pc = "save_plate"
    /\ error' = "RemoteError" /\ pc' = "crashed"
    /\ UNCHANGED <<paramVars, srvVars, scriptVars, screen, i, parseVars>>

\* screen is not None and screen.canLink(): the ScreenPlateLink is saved
LinkPlate ==
    /\ pc = "link_plate" /\ screen # 0
    /\ srvScreenLinks' = srvScreenLinks \cup {<<screen, plate>>}
    /\ pc' = "list"
    /\ UNCHANGED <<paramVars, content, links, srvPlates, srvWells, srvFailed,
                   srvScreens, scriptVars, screen, i, error, parseVars>>

\* update_service.saveObject(link) raises: nothing catches it
LinkPlateFails ==
    /\ pc = "link_plate" /\ screen # 0
    /\ error' = "RemoteError" /\ pc' = "crashed"
    /\ UNCHANGED <<paramVars, srvVars, scriptVars, screen, i, parseVars>>

\* screen is None, or screen.canLink() is false
LinkSkipped ==
    /\ pc = "link_plate"
    /\ pc' = "list"
    /\ UNCHANGED <<paramVars, srvVars, scriptVars, screen, i, error, parseVars>>

\* dataset.listChildren(): the images still linked to the dataset
listChildren(d) ==
    SelectSeq(content[d], LAMBDA im : <<d, im.id>> \in links)

\* images = list(dataset.listChildren()), then the grouping that opens
\* add_images_to_plate
ListImages ==
    /\ pc = "list"
    /\ images' = listChildren(ids[i])
    /\ grouped' = group_images_by_well_position(listChildren(ids[i]))
    /\ g' = 1 /\ r' = 1 /\ ret' = "none"
    /\ pc' = "wells"
    /\ UNCHANGED <<paramVars, srvVars, screen, i, plates, log, plate, error,
                   result, parseVars>>

(***************************************************************************)
(* add_images_to_plate.                                                    *)
(***************************************************************************)
\* ord(row_str) raises TypeError for a row label of several letters
RowTypeError ==
    /\ pc = "wells" /\ g <= Len(grouped)
    /\ ~OrdDefined(grouped[g].key[1])
    /\ error' = "TypeError" /\ pc' = "crashed"
    /\ UNCHANGED <<paramVars, srvVars, scriptVars, screen, i, parseVars>>

\* the well of group g is built and update_service.saveObject(well) succeeds
SaveWell ==
    /\ pc = "wells" /\ g <= Len(grouped)
    /\ OrdDefined(grouped[g].key[1])
    /\ srvWells' = Append(srvWells, MakeWell(plate, grouped[g].key, grouped[g].imgs))
    /\ g' = g + 1
    /\ UNCHANGED <<paramVars, content, links, srvPlates, srvFailed, srvScreenLinks,
                   srvScreens, screen, pc, i, plates, log, plate, images,
                   grouped, r, ret, error, result, parseVars>>

\* the except branch without its return: the loop goes on to the next group
SaveWellFailsContinues ==
    /\ pc = "wells" /\ g <= Len(grouped)
    /\ OrdDefined(grouped[g].key[1])
    /\ srvFailed' = Append(srvFailed, MakeWell(plate, grouped[g].key, grouped[g].imgs))
    /\ g' = g + 1
    /\ UNCHANGED <<paramVars, content, links, srvPlates, srvWells, srvScreenLinks,
                   srvScreens, screen, pc, i, plates, log, plate, images,
                   grouped, r, ret, error, result, parseVars>>

\* saveObject(well) raises: the except branch prints and returns False
SaveWellFails ==
    /\ pc = "wells" /\ g <= Len(grouped)
    /\ OrdDefined(grouped[g].key[1])
    /\ srvFailed' = Append(srvFailed, MakeWell(plate, grouped[g].key, grouped[g].imgs))
    /\ ret' = "False" /\ pc' = "returned"
    /\ UNCHANGED <<paramVars, content, links, srvPlates, srvWells, srvScreenLinks,
                   srvScreens, screen, i, plates, log, plate, images, grouped,
                   g, r, error, result, parseVars>>

\* only the images that were given a well-sample
PlacedOnly(imgs, gr) ==
    SelectSeq(imgs, LAMBDA im :
        \E k \in 1..Len(gr) : \E n \in 1..Len(FirstTwo(gr[k].imgs)) :
            gr[k].imgs[n].id = im.id)

\* the images whose links are deleted: for image in images
RemovalList(imgs, gr) == imgs

\* the loop over the groups has ended and remove_from is not None
StartRemove ==
    /\ pc = "wells" /\ g > Len(grouped) /\ removeParam
    /\ r' = 1 /\ pc' = "remove"
    /\ UNCHANGED <<paramVars, srvVars, screen, i, plates, log, plate, images,
                   grouped, g, ret, error, result, parseVars>>

\* the loop over the groups has ended and remove_from is None: return True
NoRemove ==
    /\ pc = "wells" /\ g > Len(grouped) /\ ~removeParam
    /\ ret' = "True" /\ pc' = "returned"
    /\ UNCHANGED <<paramVars, srvVars, screen, i, plates, log, plate, images,
                   grouped, g, r, error, result, parseVars>>

\* conn.deleteObjects('DatasetImageLink', link_ids) for one image
RemoveLink ==
    /\ pc = "remove" /\ r <= Len(RemovalList(images, grouped))
    /\ links' = links \ {<<ids[i], RemovalList(images, grouped)[r].id>>}
    /\ r' = r + 1
    /\ UNCHANGED <<paramVars, content, srvPlates, srvWells, srvFailed,
                   srvScreenLinks, srvScreens, screen, pc, i, plates, log,
                   plate, images, grouped, g, ret, error, result, parseVars>>

\* every image was handled: return True
RemoveDone ==
    /\ pc = "remove" /\ r > Len(RemovalList(images, grouped))
    /\ ret' = "True" /\ pc' = "returned"
    /\ UNCHANGED <<paramVars, srvVars, screen, i, plates, log, plate, images,
                   grouped, g, r, error, result, parseVars>>

(***************************************************************************)
(* datasets_to_plates: the loop over the dataset ids.                      *)
(***************************************************************************)
\* dataset_to_plate drops the value add_images_to_plate returned and returns
\* the plate; the driver appends it and prints "Successfully processed"
DatasetDone ==
    /\ pc = "returned"
    /\ plates' = Append(plates, plate)
    /\ log' = Append(log, [id |-> ids[i], ok |-> TRUE,
                           message |-> "Images added to plate based on filename",
                           plate |-> plate])
    /\ i' = i + 1 /\ pc' = "loop"
    /\ UNCHANGED <<paramVars, srvVars, screen, plate, images, grouped, g, r,
                   ret, error, result, parseVars>>

\* the first plate and the count of plates, or no plate
BatchDone ==
    /\ pc = "loop" /\ i > Len(ids)
    /\ result' = IF plates = <<>> THEN [obj |-> 0, n |-> 0]
                 ELSE [obj |-> plates[1], n |-> Len(plates)]
    /\ pc' = "done"
    /\ UNCHANGED <<paramVars, srvVars, screen, i, plates, log, plate, images,
                   grouped, g, r, ret, error, parseVars>>

\* the parser applied to the filename
ParseStep ==
    /\ pc = "parse"
    /\ parsed' = parse_well_position_from_filename(fname)
    /\ pc' = "parsed"
    /\ UNCHANGED <<paramVars, srvVars, scriptVars, screen, i, error, fname>>

\* the grouping applied to the images
GroupStep ==
    /\ pc = "group"
    /\ grouped' = group_images_by_well_position(images)
    /\ pc' = "grouped"
    /\ UNCHANGED <<paramVars, srvVars, screen, i, plates, log, plate, images,
                   g, r, ret, error, result, parseVars>>

Next ==
    \/ ScreenNone \/ ScreenById \/ ScreenCreate \/ ScreenCreateFails
    \/ DatasetNotFound \/ DatasetFound
    \/ SavePlate \/ SavePlateFails
    \/ LinkPlate \/ LinkPlateFails \/ LinkSkipped
    \/ ListImages
    \/ RowTypeError \/ SaveWell \/ SaveWellFails
    \/ StartRemove \/ NoRemove \/ RemoveLink \/ RemoveDone
    \/ DatasetDone \/ BatchDone

Spec == Init /\ [][Next]_vars

\* the steps of one dataset_to_plate call and of the return to the driver
NextWells ==
    \/ DatasetFound
    \/ SavePlate \/ SavePlateFails
    \/ LinkPlate \/ LinkPlateFails \/ LinkSkipped
    \/ ListImages
    \/ RowTypeError \/ SaveWell \/ SaveWellFails
    \/ StartRemove \/ NoRemove \/ RemoveLink \/ RemoveDone
    \/ DatasetDone \/ BatchDone

SpecWells == InitWells /\ [][NextWells]_vars

SpecGroup == InitGroup /\ [][GroupStep]_vars

SpecParse == InitParse /\ [][ParseStep]_vars

(***************************************************************************)
(* Properties.                                                             *)
(***************************************************************************)
Range(s) == {s[k] : k \in 1..Len(s)}

IdsOf(imgs) == [k \in 1..Len(imgs) |-> imgs[k].id]

\* the listed images whose name gives the coordinate of well w
MembersOf(w) ==
    SelectSeq(images, LAMBDA im :
        LET p == parse_well_position_from_filename(im.name)
        IN  /\ p.found
            /\ Len(p.row) = 1
            /\ OrdChar(p.row[1]) - 65 = w.row
            /\ p.col - 1 = w.column)

C2_RemovalAfterAllSaves ==
    /\ (pc = "returned" /\ removeParam /\ srvFailed = <<>>) =>
          \A k \in 1..Len(images) : <<ids[1], images[k].id>> \notin links
    /\ srvFailed # <<>> => links = LinksOf(content)
    /\ links # LinksOf(content) =>
          /\ removeParam
          /\ srvFailed = <<>>
          /\ Len(srvWells) = Len(grouped)
          /\ pc \in {"remove", "returned", "loop", "done"}

C2_Witness ==
    /\ pc = "returned" /\ removeParam /\ links = {}
    /\ Len(srvWells) = 1 /\ Len(images) = 4
    /\ \E k \in 1..Len(images) : ~parse_well_position_from_filename(images[k].name).found
    /\ Len(MembersOf(srvWells[1])) = 3

\* the failed save C3 is about: the well saves of the plate of log entry k
WellSaveFailedFor(k) == \E n \in 1..Len(srvFailed) : srvFailed[n].plate = log[k].plate

\* C3: a dataset one of whose well saves failed is reported as failed, not
\* as successfully processed, and contributes no plate.
C3_FailedDatasetReportedFailed ==
    \A k \in 1..Len(log) :
        (log[k].plate # 0 /\ WellSaveFailedFor(k)) =>
            /\ ~log[k].ok
            /\ log[k].plate \notin Range(plates)

Resolved(s) == SelectSeq(s, LAMBDA d : d \in DatasetIds)

\* C4: a dataset id that does not resolve is reported "Dataset not found",
\* creates no plate, well or screen link, touches no image link and adds no
\* plate to the result, and the ids before and after it are handled as usual:
\* each id that resolves contributes its plate, in order.
C4_NotFoundState ==
    LET done == SubSeq(ids, 1, i - 1)
    IN  /\ Len(log) = i - 1
        /\ \A k \in 1..Len(log) :
              /\ log[k].id = ids[k]
              /\ ids[k] \notin DatasetIds =>
                    /\ ~log[k].ok
                    /\ log[k].message = "Dataset not found"
                    /\ log[k].plate = 0
        /\ Len(plates) = Len(Resolved(done))
        /\ \A k \in 1..Len(plates) : srvPlates[plates[k]] = Resolved(done)[k]
        /\ \/ srvPlates = Resolved(done)
           \/ /\ i <= Len(ids) /\ ids[i] \in DatasetIds
              /\ srvPlates = Append(Resolved(done), ids[i])
        /\ pc = "done" => i = Len(ids) + 1
        /\ pc = "crashed" =>
              \/ screenParam = "name" /\ screen = 0 /\ i = 1
              \/ i <= Len(ids) /\ ids[i] \in DatasetIds

C4_NotFoundStep ==
    (pc = "loop" /\ i <= Len(ids) /\ ids[i] \notin DatasetIds) =>
        /\ UNCHANGED <<srvVars, plates, pc>>
        /\ i' = i + 1

\* C4: the state part holds in every state, and the step that handles an id
\* that does not resolve changes nothing on the server, adds no plate and
\* moves on to the next id.
C4_NotFoundSkipsOnlyItself == []C4_NotFoundState /\ [][C4_NotFoundStep]_vars

C4_Witness ==
    /\ pc = "done" /\ Len(ids) = 2
    /\ ids[1] = 3 /\ ids[2] = 1
    /\ Len(plates) = 1 /\ srvPlates = <<1>>
    /\ ~log[1].ok /\ log[2].ok

NameOf(id) ==
    CHOOSE nm \in NameSet : \E d \in DatasetIds : \E k \in 1..Len(content[d]) :
        content[d][k].id = id /\ content[d][k].name = nm

\* names that differ only in the case of the row letter and in leading zeros
SameCoordNames == { <<"b", "3", "_", "x">>, <<"B", "0", "3">> }

\* C5: no two saved wells of one plate have the same (row, column), and
\* images named b3_x and B03 are never in two different wells.
C5_OneWellPerCoordinate ==
    \A a \in 1..Len(srvWells) : \A b \in 1..Len(srvWells) :
        (a # b /\ srvWells[a].plate = srvWells[b].plate) =>
            /\ <<srvWells[a].row, srvWells[a].column>> #
                  <<srvWells[b].row, srvWells[b].column>>
            /\ ~ \E x \in Range(srvWells[a].samples) :
                   \E y \in Range(srvWells[b].samples) :
                      {NameOf(x), NameOf(y)} \subseteq SameCoordNames

C5_Witness ==
    /\ Len(srvWells) = 2
    /\ \E a \in 1..2 :
          /\ Len(srvWells[a].samples) = 2
          /\ NameOf(srvWells[a].samples[1]) = <<"b", "3", "_", "x">>
          /\ NameOf(srvWells[a].samples[2]) = <<"B", "0", "3">>

KeyOf(im) ==
    LET p == parse_well_position_from_filename(im.name) IN <<p.row, p.col>>

Parses(im) == parse_well_position_from_filename(im.name).found

\* C6: each group holds exactly the images whose name parses to its key, in
\* the order of the input; no two groups share a key; every image whose name
\* parses is in the group of its key; an image whose name does not parse is
\* in no group.
C6_GroupingStable ==
    pc # "grouped" \/
    /\ \A k \in 1..Len(grouped) :
          /\ grouped[k].imgs # <<>>
          /\ grouped[k].imgs =
                SelectSeq(images, LAMBDA im : Parses(im) /\ KeyOf(im) = grouped[k].key)
    /\ \A a \in 1..Len(grouped) : \A b \in 1..Len(grouped) :
          a # b => grouped[a].key # grouped[b].key
    /\ \A n \in 1..Len(images) :
          IF Parses(images[n])
          THEN \E k \in 1..Len(grouped) : grouped[k].key = KeyOf(images[n])
          ELSE \A k \in 1..Len(grouped) : images[n] \notin Range(grouped[k].imgs)

C6_Witness ==
    /\ pc = "grouped" /\ Len(images) = 4 /\ Len(grouped) = 2
    /\ IdsOf(grouped[1].imgs) = <<11, 14>>
    /\ IdsOf(grouped[2].imgs) = <<12>>
    /\ ~Parses(images[3])

\* the letter-digit adjacencies of a filename
Adjacencies(s) ==
    {k \in 1..(Len(s) - 1) : s[k] \in Letters /\ s[k + 1] \in Digits}

\* C7: the parser returns nothing exactly for a filename without a letter
\* next to a digit; otherwise it returns the letter run that ends at the
\* first such adjacency, uppercased, and the value of the digit run after
\* it; A2_ and A02 both give ("A", 2).
C7_ParserFindsFirstRun ==
    pc = "parsed" =>
        /\ parsed.found <=> Adjacencies(fname) # {}
        /\ Adjacencies(fname) # {} =>
              LET j == CHOOSE k \in Adjacencies(fname) :
                           \A m \in Adjacencies(fname) : k <= m
                  a == CHOOSE k \in 1..j :
                           /\ \A m \in k..j : fname[m] \in Letters
                           /\ k > 1 => fname[k - 1] \notin Letters
                  z == CHOOSE k \in (j + 1)..Len(fname) :
                           /\ \A m \in (j + 1)..k : fname[m] \in Digits
                           /\ k < Len(fname) => fname[k + 1] \notin Digits
              IN  /\ Len(parsed.row) = j - a + 1
                  /\ \A m \in 1..Len(parsed.row) :
                        /\ parsed.row[m] \in UpperLetters
                        /\ UpperChar(fname[a + m - 1]) = parsed.row[m]
                  /\ parsed.col = IntOf(SubSeq(fname, j + 1, z))
        /\ fname \in {<<"A", "2", "_">>, <<"A", "0", "2">>} =>
              parsed = [found |-> TRUE, row |-> <<"A">>, col |-> 2]

C7_Witness ==
    /\ pc = "parsed"
    /\ fname = <<"_", "b", "0", "2">>
    /\ parsed = [found |-> TRUE, row |-> <<"B">>, col |-> 2]

\* zero-based alphabet index of a row letter
LetterIndex(c) ==
    CASE c = "A" -> 0
      [] c = "B" -> 1
      [] c = "X" -> 23

\* C8: every coordinate group gets a well (no group makes the assignment
\* raise), and the k-th saved well has the alphabet index of the group's row
\* letter as row and the group's column number minus 1 as column.
C8_OneWellPerGroup ==
    /\ error # "TypeError"
    /\ \A k \in 1..Len(srvWells) :
          /\ srvWells[k].row = LetterIndex(grouped[k].key[1][1])
          /\ srvWells[k].column = grouped[k].key[2] - 1

\* C9: the saved wells are those of the first groups, in iteration order;
\* after a rejected save the assignment has returned False, the rejected well
\* is the one of the group after the saved ones, no later group was tried,
\* and the wells and the plate saved before are still there.
C9_FailureStopsLoopKeepsWells ==
    /\ Len(srvWells) <= Len(grouped)
    /\ \A k \in 1..Len(srvWells) :
          srvWells[k] = MakeWell(plate, grouped[k].key, grouped[k].imgs)
    /\ pc = "wells" => Len(srvWells) = g - 1
    /\ srvFailed # <<>> =>
          /\ Len(srvFailed) = 1
          /\ Len(srvWells) < Len(grouped)
          /\ srvFailed[1] = MakeWell(plate, grouped[Len(srvWells) + 1].key,
                                     grouped[Len(srvWells) + 1].imgs)
          /\ ret = "False"
          /\ pc \in {"returned", "loop", "done"}
          /\ srvPlates = <<ids[1]>>

C9_Witness ==
    /\ pc = "done"
    /\ Len(grouped) = 3 /\ Len(srvWells) = 1 /\ Len(srvFailed) = 1

\* C10: every saved well has a non-negative row and a non-negative column.
C10_NonNegativeIndices ==
    \A k \in 1..Len(srvWells) : srvWells[k].row >= 0 /\ srvWells[k].column >= 0

====
